---------------------------- MODULE Spec2Model ----------------------------
(***************************************************************************)
(* A model of ndk/src/media/media_codec.rs: the MediaFormat and MediaCodec *)
(* wrappers around the native AMediaFormat / AMediaCodec handles, and the  *)
(* InputBuffer / OutputBuffer tokens exchanged with a codec session.       *)
(*                                                                         *)
(* The native library is the environment: every value it returns (a        *)
(* handle or NULL, a media_status_t, an ssize_t) is drawn from a set.      *)
(* The model is of a 64-bit target: isize / usize are 64 bits wide and     *)
(* media_status_t is a 32-bit C int.  The functions behind the             *)
(* api-level-26 / api-level-28 features are not modelled.                  *)
(***************************************************************************)
EXTENDS Integers, Sequences, FiniteSets

VARIABLES
    codec,   \* codec[c]: the native AMediaCodec handle c and its wrapper
    format,  \* format[f]: the native AMediaFormat handle f and its wrapper
    tok,     \* tok[t]: a buffer token a caller holds, or NoTok
    uad,     \* TRUE once a deleted handle was passed to the native library
    last     \* the wrapper operation the caller is looking at the result of:
             \* its native calls and what it returned; Idle between operations

vars == <<codec, format, tok, uad, last>>

(***************************************************************************)
(* Bounds of the model.                                                    *)
(***************************************************************************)
MaxCodecs == 2
MaxFormats == 1
MaxTokens == 1

CodecIds == 1..MaxCodecs
FormatIds == 1..MaxFormats
TokIds == 1..MaxTokens

(***************************************************************************)
(* Constants of the native API.                                            *)
(***************************************************************************)
AMEDIA_OK == 0
AMEDIA_ERROR_UNKNOWN == -10000
AMEDIACODEC_INFO_TRY_AGAIN_LATER == -1
AMEDIACODEC_INFO_OUTPUT_FORMAT_CHANGED == -2
AMEDIACODEC_INFO_OUTPUT_BUFFERS_CHANGED == -3
AMEDIACODEC_CONFIGURE_FLAG_ENCODE == 1

\* The null pointer; a handle the native library hands out is never 0.
NULL == 0

(***************************************************************************)
(* Machine integers.  An isize (ssize_t) is its two's complement bit       *)
(* pattern cut in two 32-bit halves: hi is the upper half read as a        *)
(* signed 32-bit integer, lo the lower half read as a signed 32-bit        *)
(* integer.  The value is negative exactly when hi is.                     *)
(***************************************************************************)
\* `x as isize` of a 32-bit signed x: sign extension.
as_isize(x) == [hi |-> IF x < 0 THEN -1 ELSE 0, lo |-> x]

\* `result as _` where a media_status_t (a C int) is expected: the low 32 bits.
as_status(r) == r.lo

\* `result >= 0` of an isize.
is_nonneg(r) == r.hi >= 0

\* `result as usize`: the same 64 bits.
as_usize(r) == r

(***************************************************************************)
(* std::time::Duration is a u64 of seconds and a u32 of nanoseconds below  *)
(* 10^9.  Wide numbers are written in base 10^6, most significant limb     *)
(* first: secs has four limbs, a number of microseconds five.              *)
(***************************************************************************)
\* A variant of as_micros that rounds to the nearest microsecond.
as_micros_rounded(d) == d.secs \o <<(d.nanos + 500) \div 1000>>

\* Duration::as_micros: secs * 1_000_000 + nanos / 1_000, as a u128.
as_micros(d) == d.secs \o <<d.nanos \div 1000>>

RECURSIVE LimbLeq(_, _)
\* a <= b of two numbers of the same number of limbs.
LimbLeq(a, b) ==
    IF a = <<>> THEN TRUE
    ELSE IF Head(a) # Head(b) THEN Head(a) < Head(b)
    ELSE LimbLeq(Tail(a), Tail(b))

\* i64::MAX = 9223372036854775807.
I64_MAX == <<0, 9, 223372, 36854, 775807>>

\* u128 -> i64 `try_into()`: Some(m) when m fits, None otherwise.
try_into_i64(m) ==
    IF LimbLeq(m, I64_MAX) THEN [some |-> TRUE, val |-> m] ELSE [some |-> FALSE]

(***************************************************************************)
(* MediaError::from_status (crate::media_error): success becomes Ok(()),   *)
(* every other status an error that carries it.                            *)
(***************************************************************************)
from_status(status) ==
    IF status = AMEDIA_OK THEN [tag |-> "Ok"] ELSE [tag |-> "Err", status |-> status]

\* Result::unwrap_err: the error of an Err, a panic on an Ok.
unwrap_err(res) ==
    IF res.tag = "Err" THEN [tag |-> "Err", status |-> res.status] ELSE [tag |-> "Panic"]

\* Result::unwrap / Option::expect as the last statement: returns or panics.
unwrap(res) == IF res.tag = "Ok" THEN [tag |-> "Return"] ELSE [tag |-> "Panic"]

(***************************************************************************)
(* Translation of the native dequeue results.                              *)
(***************************************************************************)
DequeuedInputBufferResult(r) ==
    IF r = as_isize(AMEDIACODEC_INFO_TRY_AGAIN_LATER)
    THEN [tag |-> "Ok", kind |-> "TryAgainLater"]
    ELSE IF is_nonneg(r)
    THEN [tag |-> "Ok", kind |-> "Buffer", index |-> as_usize(r)]
    ELSE unwrap_err(from_status(as_status(r)))

DequeuedOutputBufferInfoResult(r) ==
    IF r = as_isize(AMEDIACODEC_INFO_TRY_AGAIN_LATER)
    THEN [tag |-> "Ok", kind |-> "TryAgainLater"]
    ELSE IF r = as_isize(AMEDIACODEC_INFO_OUTPUT_FORMAT_CHANGED)
    THEN [tag |-> "Ok", kind |-> "OutputFormatChanged"]
    ELSE IF r = as_isize(AMEDIACODEC_INFO_OUTPUT_BUFFERS_CHANGED)
    THEN [tag |-> "Ok", kind |-> "OutputBuffersChanged"]
    ELSE IF is_nonneg(r)
    THEN [tag |-> "Ok", kind |-> "Buffer", index |-> as_usize(r)]
    ELSE unwrap_err(from_status(as_status(r)))

(***************************************************************************)
(* State.  A handle is "none" before the native library hands it out,      *)
(* "live" while a wrapper value owns it and "deleted" once the native      *)
(* delete was called on it; dels counts the native delete calls on it.     *)
(* A token is an InputBuffer ("in") or an OutputBuffer ("out") value:      *)
(* the codec it borrows, the index the dequeue returned, and uses, the     *)
(* number of native queue / release calls it was passed to.                *)
(***************************************************************************)
NoTok == [kind |-> "none"]

NoHandle == [st |-> "none", dels |-> 0]

NoFormat == [st |-> "none", dels |-> 0, from |-> "none"]

Idle == [op |-> "idle", args |-> <<>>, calls |-> <<>>, ret |-> [tag |-> "Return"]]

Init ==
    /\ codec = [c \in CodecIds |-> NoHandle]
    /\ format = [f \in FormatIds |-> NoFormat]
    /\ tok = [t \in TokIds |-> NoTok]
    /\ uad = FALSE
    /\ last = Idle

\* The handle the native library hands out next, if the bound leaves one.
FreshCodec ==
    {c \in CodecIds : codec[c].st = "none" /\ \A b \in 1..(c-1) : codec[b].st # "none"}

FreshFormat ==
    {f \in FormatIds : format[f].st = "none" /\ \A b \in 1..(f-1) : format[b].st # "none"}

\* The place of the caller's next token, if the bound leaves one.
FreeTok == {t \in TokIds : tok[t] = NoTok /\ \A b \in 1..(t-1) : tok[b] # NoTok}

\* Some native call of `calls` is handed a handle that was deleted before.
UsesDeleted(calls) ==
    \E i \in 1..Len(calls) :
        \/ "codec" \in DOMAIN calls[i] /\ codec[calls[i].codec].st = "deleted"
        \/ "format" \in DOMAIN calls[i] /\ format[calls[i].format].st = "deleted"

RECURSIVE Count(_, _, _, _)
\* The number of native calls of `calls` to function fn on handle h.
Count(calls, fn, field, h) ==
    IF calls = <<>> THEN 0
    ELSE (IF Head(calls).fn = fn /\ Head(calls)[field] = h THEN 1 ELSE 0)
         + Count(Tail(calls), fn, field, h)

\* A wrapper operation on `args` made the native calls `calls` (each with the
\* value the native library answered) and ended with `ret`.
Done(op, args, calls, ret) ==
    /\ last' = [op |-> op, args |-> args, calls |-> calls, ret |-> ret]
    /\ uad' = (uad \/ UsesDeleted(calls))

\* The caller is between two operations.
Ready == last = Idle

\* A &MediaCodec / &MediaFormat exists only while the wrapper value does.
LiveCodec(c) == codec[c].st = "live"

LiveFormat(f) == format[f].st = "live"

(***************************************************************************)
(* MediaFormat.                                                            *)
(***************************************************************************)
\* MediaFormat::new: NonNull::new(AMediaFormat_new()).unwrap().
MediaFormat_new(p) ==
    /\ Ready
    /\ p \in {NULL} \cup FreshFormat
    /\ format' = IF p = NULL THEN format
                 ELSE [format EXCEPT ![p] = [st |-> "live", dels |-> 0, from |-> "new"]]
    /\ Done("MediaFormat::new", <<>>, <<[fn |-> "AMediaFormat_new", result |-> p]>>,
            IF p = NULL THEN [tag |-> "Panic"] ELSE [tag |-> "Return", format |-> p])
    /\ UNCHANGED <<codec, tok>>

\* MediaFormat::i32 and the other getters: one native read of the dictionary.
MediaFormat_i32(f, found) ==
    /\ Ready
    /\ LiveFormat(f)
    /\ Done("MediaFormat::i32", [self |-> f],
            <<[fn |-> "AMediaFormat_getInt32", format |-> f, result |-> found]>>,
            [tag |-> "Return", some |-> found])
    /\ UNCHANGED <<codec, format, tok>>

\* MediaFormat::set_i32 and the other setters: one native write.
MediaFormat_set_i32(f) ==
    /\ Ready
    /\ LiveFormat(f)
    /\ Done("MediaFormat::set_i32", [self |-> f],
            <<[fn |-> "AMediaFormat_setInt32", format |-> f]>>, [tag |-> "Return"])
    /\ UNCHANGED <<codec, format, tok>>

\* A variant of drop_outcome that ignores the status of the delete.
drop_outcome_ignored(status) == [tag |-> "Return"]

\* What a drop does with the status of the delete: from_status(status).unwrap().
drop_outcome(status) == unwrap(from_status(status))

\* The native calls of <MediaFormat as Drop>::drop.
MediaFormat_drop_calls(f, status) ==
    <<[fn |-> "AMediaFormat_delete", format |-> f, result |-> status]>>

\* <MediaFormat as Drop>::drop.
MediaFormat_drop(f, status) ==
    /\ Ready
    /\ LiveFormat(f)
    /\ LET calls == MediaFormat_drop_calls(f, status)
       IN /\ format' = [format EXCEPT ![f].st = "deleted",
                            ![f].dels = @ + Count(calls, "AMediaFormat_delete", "format", f)]
          /\ Done("MediaFormat::drop", [self |-> f], calls, drop_outcome(status))
    /\ UNCHANGED <<codec, tok>>

(***************************************************************************)
(* MediaCodec: creation.                                                   *)
(***************************************************************************)
\* Some(Self { inner: NonNull::new(p)? }) after CString::new(name).unwrap().
create(op, fn, interior_nul, p) ==
    /\ Ready
    /\ p \in {NULL} \cup FreshCodec
    /\ codec' = IF interior_nul \/ p = NULL THEN codec
                ELSE [codec EXCEPT ![p] = [st |-> "live", dels |-> 0]]
    /\ Done(op, [interior_nul |-> interior_nul],
            IF interior_nul THEN <<>> ELSE <<[fn |-> fn, result |-> p]>>,
            IF interior_nul THEN [tag |-> "Panic"]
            ELSE IF p = NULL THEN [tag |-> "Return", some |-> FALSE]
            ELSE [tag |-> "Return", some |-> TRUE, codec |-> p])
    /\ UNCHANGED <<format, tok>>

from_codec_name(interior_nul, p) ==
    create("MediaCodec::from_codec_name", "AMediaCodec_createCodecByName", interior_nul, p)

from_decoder_type(interior_nul, p) ==
    create("MediaCodec::from_decoder_type", "AMediaCodec_createDecoderByType", interior_nul, p)

from_encoder_type(interior_nul, p) ==
    create("MediaCodec::from_encoder_type", "AMediaCodec_createEncoderByType", interior_nul, p)

(***************************************************************************)
(* MediaCodec: the operations that return the translated status.           *)
(***************************************************************************)
\* surface.map_or(ptr::null_mut(), |s| s.ptr().as_ptr())
surface_ptr(surface) == IF surface.some THEN surface.window ELSE NULL

\* A variant of configure_flags with the two directions swapped.
configure_flags_swapped(direction) ==
    IF direction = "Encoder" THEN 0 ELSE AMEDIACODEC_CONFIGURE_FLAG_ENCODE

\* The flags argument of AMediaCodec_configure.
configure_flags(direction) ==
    IF direction = "Encoder" THEN AMEDIACODEC_CONFIGURE_FLAG_ENCODE ELSE 0

configure(c, f, surface, direction, status) ==
    /\ Ready
    /\ LiveCodec(c)
    /\ LiveFormat(f)
    /\ Done("MediaCodec::configure",
            [self |-> c, format |-> f, surface |-> surface, direction |-> direction],
            <<[fn |-> "AMediaCodec_configure", codec |-> c, format |-> f,
               surface |-> surface_ptr(surface), crypto |-> NULL,
               flags |-> configure_flags(direction), result |-> status]>>,
            from_status(status))
    /\ UNCHANGED <<codec, format, tok>>

flush(c, status) ==
    /\ Ready
    /\ LiveCodec(c)
    /\ Done("MediaCodec::flush", [self |-> c],
            <<[fn |-> "AMediaCodec_flush", codec |-> c, result |-> status]>>,
            from_status(status))
    /\ UNCHANGED <<codec, format, tok>>

\* A variant of start that calls the native start again when it failed.
start_retrying(c, status) ==
    /\ Ready
    /\ LiveCodec(c)
    /\ Done("MediaCodec::start", [self |-> c],
            IF status = AMEDIA_OK
            THEN <<[fn |-> "AMediaCodec_start", codec |-> c, result |-> status]>>
            ELSE <<[fn |-> "AMediaCodec_start", codec |-> c, result |-> status],
                   [fn |-> "AMediaCodec_start", codec |-> c, result |-> status]>>,
            from_status(status))
    /\ UNCHANGED <<codec, format, tok>>

start(c, status) ==
    /\ Ready
    /\ LiveCodec(c)
    /\ Done("MediaCodec::start", [self |-> c],
            <<[fn |-> "AMediaCodec_start", codec |-> c, result |-> status]>>,
            from_status(status))
    /\ UNCHANGED <<codec, format, tok>>

stop(c, status) ==
    /\ Ready
    /\ LiveCodec(c)
    /\ Done("MediaCodec::stop", [self |-> c],
            <<[fn |-> "AMediaCodec_stop", codec |-> c, result |-> status]>>,
            from_status(status))
    /\ UNCHANGED <<codec, format, tok>>

set_output_surface(c, window, status) ==
    /\ Ready
    /\ LiveCodec(c)
    /\ Done("MediaCodec::set_output_surface", [self |-> c, surface |-> window],
            <<[fn |-> "AMediaCodec_setOutputSurface", codec |-> c, surface |-> window,
               result |-> status]>>,
            from_status(status))
    /\ UNCHANGED <<codec, format, tok>>

\* MediaCodec::output_format: the native library hands out a new format handle.
output_format(c, p) ==
    /\ Ready
    /\ LiveCodec(c)
    /\ p \in {NULL} \cup FreshFormat
    /\ format' = IF p = NULL THEN format
                 ELSE [format EXCEPT ![p] = [st |-> "live", dels |-> 0, from |-> "output_format"]]
    /\ Done("MediaCodec::output_format", [self |-> c],
            <<[fn |-> "AMediaCodec_getOutputFormat", codec |-> c, result |-> p]>>,
            IF p = NULL THEN [tag |-> "Panic"] ELSE [tag |-> "Return", format |-> p])
    /\ UNCHANGED <<codec, tok>>

(***************************************************************************)
(* MediaCodec: dequeue.                                                    *)
(***************************************************************************)
\* timeout.as_micros().try_into(): the timeoutUs argument, if there is one.
timeout_us(d) == try_into_i64(as_micros(d))

\* The token a Buffer result hands to the caller: InputBuffer { codec: self,
\* index } or OutputBuffer { codec: self, index, info }.
NewTok(kind, c, res) == [kind |-> kind, codec |-> c, index |-> res.index, uses |-> 0]

\* The dequeue of either side; res is the translation of the native result r.
dequeue(op, fn, kind, c, d, r, res) ==
    /\ Ready
    /\ LiveCodec(c)
    /\ LET us == timeout_us(d)
           taken == us.some /\ res.tag = "Ok" /\ res.kind = "Buffer"
       IN /\ taken => FreeTok # {}
          /\ tok' = IF taken
                    THEN [tok EXCEPT ![CHOOSE t \in FreeTok : TRUE] = NewTok(kind, c, res)]
                    ELSE tok
          /\ Done(op, [self |-> c, timeout |-> d],
                  IF us.some
                  THEN <<[fn |-> fn, codec |-> c, timeoutUs |-> us.val, result |-> r]>>
                  ELSE <<>>,
                  IF us.some THEN res
                  ELSE [tag |-> "Panic", msg |-> "Supplied timeout is too large"])
    /\ UNCHANGED <<codec, format>>

dequeue_input_buffer(c, d, r) ==
    dequeue("MediaCodec::dequeue_input_buffer", "AMediaCodec_dequeueInputBuffer", "in",
            c, d, r, DequeuedInputBufferResult(r))

dequeue_output_buffer(c, d, r) ==
    dequeue("MediaCodec::dequeue_output_buffer", "AMediaCodec_dequeueOutputBuffer", "out",
            c, d, r, DequeuedOutputBufferInfoResult(r))

(***************************************************************************)
(* MediaCodec: giving a buffer back.  The token is taken by value: the     *)
(* caller no longer has it when the operation returns.                     *)
(***************************************************************************)
\* The codec handle of the native call: self.as_ptr().
target(c, buffer) == c

\* The index argument of the native call: buffer.index.
index_arg(buffer) == buffer.index

\* A variant of consume for a token taken by reference: the caller keeps it.
consume_kept(t) == [tok EXCEPT ![t].uses = @ + 1]

\* `buffer` is moved into the operation: the caller's place t is empty.
consume(t) == [tok EXCEPT ![t] = NoTok]

queue_input_buffer(c, t, status) ==
    /\ Ready
    /\ LiveCodec(c)
    /\ tok[t].kind = "in"
    /\ tok' = consume(t)
    /\ Done("MediaCodec::queue_input_buffer", [self |-> c, buffer |-> tok[t], place |-> t],
            <<[fn |-> "AMediaCodec_queueInputBuffer", codec |-> target(c, tok[t]),
               index |-> index_arg(tok[t]), result |-> status]>>,
            from_status(status))
    /\ UNCHANGED <<codec, format>>

release_output_buffer(c, t, render, status) ==
    /\ Ready
    /\ LiveCodec(c)
    /\ tok[t].kind = "out"
    /\ tok' = consume(t)
    /\ Done("MediaCodec::release_output_buffer",
            [self |-> c, buffer |-> tok[t], place |-> t, render |-> render],
            <<[fn |-> "AMediaCodec_releaseOutputBuffer", codec |-> target(c, tok[t]),
               index |-> index_arg(tok[t]), render |-> render, result |-> status]>>,
            from_status(status))
    /\ UNCHANGED <<codec, format>>

release_output_buffer_at_time(c, t, timestamp_ns, status) ==
    /\ Ready
    /\ LiveCodec(c)
    /\ tok[t].kind = "out"
    /\ tok' = consume(t)
    /\ Done("MediaCodec::release_output_buffer_at_time",
            [self |-> c, buffer |-> tok[t], place |-> t, timestamp_ns |-> timestamp_ns],
            <<[fn |-> "AMediaCodec_releaseOutputBufferAtTime", codec |-> target(c, tok[t]),
               index |-> index_arg(tok[t]), timestamp_ns |-> timestamp_ns,
               result |-> status]>>,
            from_status(status))
    /\ UNCHANGED <<codec, format>>

(***************************************************************************)
(* InputBuffer / OutputBuffer.                                             *)
(***************************************************************************)
\* InputBuffer::buffer_mut: the assert panics on a NULL buffer pointer.
buffer_mut(t, is_null) ==
    /\ Ready
    /\ tok[t].kind = "in"
    /\ Done("InputBuffer::buffer_mut", [self |-> tok[t], place |-> t],
            <<[fn |-> "AMediaCodec_getInputBuffer", codec |-> tok[t].codec,
               index |-> tok[t].index, result |-> IF is_null THEN NULL ELSE 1]>>,
            IF is_null THEN [tag |-> "Panic"] ELSE [tag |-> "Return"])
    /\ UNCHANGED <<codec, format, tok>>

\* OutputBuffer::buffer.
buffer(t, is_null) ==
    /\ Ready
    /\ tok[t].kind = "out"
    /\ Done("OutputBuffer::buffer", [self |-> tok[t], place |-> t],
            <<[fn |-> "AMediaCodec_getOutputBuffer", codec |-> tok[t].codec,
               index |-> tok[t].index, result |-> IF is_null THEN NULL ELSE 1]>>,
            IF is_null THEN [tag |-> "Panic"] ELSE [tag |-> "Return"])
    /\ UNCHANGED <<codec, format, tok>>

\* A token goes out of scope unused: neither type implements Drop, so no
\* native call is made.
drop_buffer(t) ==
    /\ Ready
    /\ tok[t] # NoTok
    /\ tok' = [tok EXCEPT ![t] = NoTok]
    /\ Done("drop buffer", [self |-> tok[t], place |-> t], <<>>, [tag |-> "Return"])
    /\ UNCHANGED <<codec, format>>

(***************************************************************************)
(* <MediaCodec as Drop>::drop.  InputBuffer<'a> and OutputBuffer<'a> hold  *)
(* a &'a MediaCodec: the codec cannot be moved or dropped while a token    *)
(* that borrows it is in use.                                              *)
(***************************************************************************)
\* A variant of borrowed for tokens that hold no reference to their codec.
never_borrowed(c) == FALSE

borrowed(c) == \E t \in TokIds : tok[t] # NoTok /\ tok[t].codec = c

\* A variant of MediaCodec_drop_calls that deletes the handle twice.
MediaCodec_drop_calls_twice(c, status) ==
    <<[fn |-> "AMediaCodec_delete", codec |-> c, result |-> status],
      [fn |-> "AMediaCodec_delete", codec |-> c, result |-> status]>>

MediaCodec_drop_calls(c, status) ==
    <<[fn |-> "AMediaCodec_delete", codec |-> c, result |-> status]>>

MediaCodec_drop(c, status) ==
    /\ Ready
    /\ LiveCodec(c)
    /\ ~borrowed(c)
    /\ LET calls == MediaCodec_drop_calls(c, status)
       IN /\ codec' = [codec EXCEPT ![c].st = "deleted",
                           ![c].dels = @ + Count(calls, "AMediaCodec_delete", "codec", c)]
          /\ Done("MediaCodec::drop", [self |-> c], calls, drop_outcome(status))
    /\ UNCHANGED <<format, tok>>

\* The caller has looked at the result and goes on to its next operation.
proceed ==
    /\ ~Ready
    /\ last' = Idle
    /\ UNCHANGED <<codec, format, tok, uad>>

(***************************************************************************)
(* Inputs and native answers.                                              *)
(***************************************************************************)
\* media_status_t values the native library answers with.
AMEDIA_ERROR_UNSUPPORTED == -10002

Statuses == {AMEDIA_OK, AMEDIA_ERROR_UNKNOWN}

WideStatuses == {AMEDIA_OK, AMEDIA_ERROR_UNKNOWN, AMEDIA_ERROR_UNSUPPORTED,
                 AMEDIACODEC_INFO_TRY_AGAIN_LATER, 1}

\* ssize_t values a dequeue answers with.
Results == {as_isize(0), as_isize(1),
            as_isize(AMEDIACODEC_INFO_TRY_AGAIN_LATER),
            as_isize(AMEDIA_ERROR_UNKNOWN)}

\* The same with the values around the limits of 32 and 64 bits:
\* 2^32 - 1, 2^32, isize::MAX, -4, -2^31, -2^32, -2^32 + 1, -2^32 - 1, isize::MIN.
WideResults ==
    Results \cup
    {as_isize(AMEDIACODEC_INFO_OUTPUT_FORMAT_CHANGED),
     as_isize(AMEDIACODEC_INFO_OUTPUT_BUFFERS_CHANGED),
     as_isize(-4), as_isize(AMEDIA_ERROR_UNSUPPORTED), as_isize(-2147483647 - 1),
     [hi |-> 0, lo |-> -1], [hi |-> 1, lo |-> 0], [hi |-> 2147483647, lo |-> -1],
     [hi |-> -1, lo |-> 0], [hi |-> -1, lo |-> 1], [hi |-> -2, lo |-> -1],
     [hi |-> -2147483647 - 1, lo |-> 0]}

Duration(secs, nanos) == [secs |-> secs, nanos |-> nanos]

\* u64::MAX = 18446744073709551615 seconds.
U64_MAX == <<18, 446744, 73709, 551615>>

Timeouts == {Duration(<<0, 0, 0, 0>>, 1500), Duration(U64_MAX, 0)}

\* The same with the durations around i64::MAX microseconds, which is
\* 9223372036854 s and 775807 us.
WideTimeouts ==
    Timeouts \cup
    {Duration(<<0, 0, 0, 0>>, 0), Duration(<<0, 0, 0, 0>>, 999),
     Duration(<<0, 0, 0, 0>>, 1000), Duration(<<0, 0, 0, 1>>, 999999999),
     Duration(<<0, 0, 1, 0>>, 0),
     Duration(<<0, 9, 223372, 36854>>, 775807000),
     Duration(<<0, 9, 223372, 36854>>, 775807999),
     Duration(<<0, 9, 223372, 36854>>, 775808000),
     Duration(<<0, 9, 223372, 36855>>, 0),
     Duration(<<0, 10, 0, 0>>, 0),
     Duration(<<1, 0, 0, 0>>, 0),
     Duration(U64_MAX, 999999999)}

Windows == {1}

Surfaces == {[some |-> FALSE]} \cup {[some |-> TRUE, window |-> w] : w \in Windows}

Directions == {"Decoder", "Encoder"}

(***************************************************************************)
(* The program: any sequence of wrapper operations.                        *)
(***************************************************************************)
Next ==
    \/ \E p \in {NULL} \cup FormatIds : MediaFormat_new(p)
    \/ \E f \in FormatIds, found \in BOOLEAN : MediaFormat_i32(f, found)
    \/ \E f \in FormatIds : MediaFormat_set_i32(f)
    \/ \E f \in FormatIds, status \in Statuses : MediaFormat_drop(f, status)
    \/ \E nul \in BOOLEAN, p \in {NULL} \cup CodecIds : from_codec_name(nul, p)
    \/ \E nul \in BOOLEAN, p \in {NULL} \cup CodecIds : from_decoder_type(nul, p)
    \/ \E nul \in BOOLEAN, p \in {NULL} \cup CodecIds : from_encoder_type(nul, p)
    \/ \E c \in CodecIds, f \in FormatIds, surface \in Surfaces, direction \in Directions,
          status \in Statuses : configure(c, f, surface, direction, status)
    \/ \E c \in CodecIds, status \in Statuses : flush(c, status)
    \/ \E c \in CodecIds, status \in Statuses : start(c, status)
    \/ \E c \in CodecIds, status \in Statuses : stop(c, status)
    \/ \E c \in CodecIds, window \in Windows, status \in Statuses :
          set_output_surface(c, window, status)
    \/ \E c \in CodecIds, p \in {NULL} \cup FormatIds : output_format(c, p)
    \/ \E c \in CodecIds, d \in Timeouts, r \in Results : dequeue_input_buffer(c, d, r)
    \/ \E c \in CodecIds, d \in Timeouts, r \in Results : dequeue_output_buffer(c, d, r)
    \/ \E c \in CodecIds, t \in TokIds, status \in Statuses : queue_input_buffer(c, t, status)
    \/ \E c \in CodecIds, t \in TokIds, render \in BOOLEAN, status \in Statuses :
          release_output_buffer(c, t, render, status)
    \/ \E c \in CodecIds, t \in TokIds, timestamp_ns \in {0}, status \in Statuses :
          release_output_buffer_at_time(c, t, timestamp_ns, status)
    \/ \E t \in TokIds, is_null \in BOOLEAN : buffer_mut(t, is_null)
    \/ \E t \in TokIds, is_null \in BOOLEAN : buffer(t, is_null)
    \/ \E t \in TokIds : drop_buffer(t)
    \/ \E c \in CodecIds, status \in Statuses : MediaCodec_drop(c, status)
    \/ proceed

Spec == Init /\ [][Next]_vars

(***************************************************************************)
(* One codec session and one format, after MediaCodec::from_codec_name     *)
(* and MediaFormat::new succeeded, under the wide sets of inputs and       *)
(* native answers.                                                         *)
(***************************************************************************)
InitSession ==
    /\ codec = [c \in CodecIds |-> IF c = 1 THEN [st |-> "live", dels |-> 0] ELSE NoHandle]
    /\ format = [f \in FormatIds |->
                    IF f = 1 THEN [st |-> "live", dels |-> 0, from |-> "new"] ELSE NoFormat]
    /\ tok = [t \in TokIds |-> NoTok]
    /\ uad = FALSE
    /\ last = Idle

NextSession ==
    \/ \E c \in CodecIds, f \in FormatIds, surface \in Surfaces, direction \in Directions,
          status \in WideStatuses : configure(c, f, surface, direction, status)
    \/ \E c \in CodecIds, status \in WideStatuses : flush(c, status)
    \/ \E c \in CodecIds, status \in WideStatuses : start(c, status)
    \/ \E c \in CodecIds, status \in WideStatuses : stop(c, status)
    \/ \E c \in CodecIds, window \in Windows, status \in WideStatuses :
          set_output_surface(c, window, status)
    \/ \E c \in CodecIds, d \in WideTimeouts, r \in Results : dequeue_input_buffer(c, d, r)
    \/ \E c \in CodecIds, d \in Timeouts, r \in WideResults : dequeue_input_buffer(c, d, r)
    \/ \E c \in CodecIds, d \in WideTimeouts, r \in Results : dequeue_output_buffer(c, d, r)
    \/ \E c \in CodecIds, d \in Timeouts, r \in WideResults : dequeue_output_buffer(c, d, r)
    \/ \E c \in CodecIds, t \in TokIds, status \in WideStatuses :
          queue_input_buffer(c, t, status)
    \/ \E c \in CodecIds, t \in TokIds, render \in BOOLEAN, status \in WideStatuses :
          release_output_buffer(c, t, render, status)
    \/ \E c \in CodecIds, t \in TokIds, timestamp_ns \in {0, 1}, status \in WideStatuses :
          release_output_buffer_at_time(c, t, timestamp_ns, status)
    \/ \E t \in TokIds : drop_buffer(t)
    \/ proceed

SpecSession == InitSession /\ [][NextSession]_vars

(***************************************************************************)
(* Properties.                                                             *)
(***************************************************************************)
DequeueOps == {"MediaCodec::dequeue_input_buffer", "MediaCodec::dequeue_output_buffer"}

ReleaseOps == {"MediaCodec::release_output_buffer", "MediaCodec::release_output_buffer_at_time"}

GiveBackOps == {"MediaCodec::queue_input_buffer"} \cup ReleaseOps

\* C1: dequeue_output_buffer translates the native result r into exactly one
\* outcome: Ok(TryAgainLater) for -1, Ok(OutputFormatChanged) for -2,
\* Ok(OutputBuffersChanged) for -3, Ok(Buffer) with index r for r >= 0, and
\* Err for every other negative r.
C1_DequeueOutputTranslation ==
    (last.op = "MediaCodec::dequeue_output_buffer" /\ last.calls # <<>>) =>
        LET r == last.calls[1].result
        IN CASE r = [hi |-> -1, lo |-> -1] ->
                    last.ret = [tag |-> "Ok", kind |-> "TryAgainLater"]
             [] r = [hi |-> -1, lo |-> -2] ->
                    last.ret = [tag |-> "Ok", kind |-> "OutputFormatChanged"]
             [] r = [hi |-> -1, lo |-> -3] ->
                    last.ret = [tag |-> "Ok", kind |-> "OutputBuffersChanged"]
             [] r.hi >= 0 ->
                    last.ret = [tag |-> "Ok", kind |-> "Buffer", index |-> r]
             [] OTHER -> last.ret.tag = "Err"

\* C2: dequeue_input_buffer returns Ok(TryAgainLater) for -1, Ok(Buffer) with
\* index r for r >= 0, and Err for every other negative r, the values -2 and
\* -3 included.
C2_DequeueInputTranslation ==
    (last.op = "MediaCodec::dequeue_input_buffer" /\ last.calls # <<>>) =>
        LET r == last.calls[1].result
        IN CASE r = [hi |-> -1, lo |-> -1] ->
                    last.ret = [tag |-> "Ok", kind |-> "TryAgainLater"]
             [] r.hi >= 0 ->
                    last.ret = [tag |-> "Ok", kind |-> "Buffer", index |-> r]
             [] OTHER -> last.ret.tag = "Err"

\* C3: every codec and format handle a wrapper owns is passed to the native
\* delete exactly once, by the drop of its wrapper and by nothing else, and no
\* native call is handed a handle that was deleted before.
C3_ReleaseOnDrop ==
    /\ \A c \in CodecIds : codec[c].dels = IF codec[c].st = "deleted" THEN 1 ELSE 0
    /\ \A f \in FormatIds : format[f].dels = IF format[f].st = "deleted" THEN 1 ELSE 0
    /\ \A i \in 1..Len(last.calls) :
          /\ last.calls[i].fn = "AMediaCodec_delete" =>
                last.op = "MediaCodec::drop" /\ last.calls[i].codec = last.args.self
          /\ last.calls[i].fn = "AMediaFormat_delete" =>
                last.op = "MediaFormat::drop" /\ last.calls[i].format = last.args.self
    /\ last.op = "MediaCodec::drop" => codec[last.args.self].st = "deleted"
    /\ last.op = "MediaFormat::drop" => format[last.args.self].st = "deleted"
    /\ ~uad

\* A codec was dropped, and so was a format that output_format returned.
C3_Witness ==
    /\ \E c \in CodecIds : codec[c].st = "deleted"
    /\ \E f \in FormatIds : format[f].st = "deleted" /\ format[f].from = "output_format"

\* C4: the index handed to the native queue-input (release-output) call is
\* the index of an InputBuffer (OutputBuffer) that a dequeue_input_buffer
\* (dequeue_output_buffer) returned as Buffer, and that token is handed to
\* such a call at most once, whatever status the native call answers; with a
\* single codec session the token is one of that session.
C4_IndexOwnership ==
    /\ \A t \in TokIds : tok[t] # NoTok => tok[t].uses = 0
    /\ (last.op \in DequeueOps /\ last.ret.tag = "Ok" /\ last.ret.kind = "Buffer") =>
          \E t \in TokIds :
              tok[t] = [kind |-> IF last.op = "MediaCodec::dequeue_input_buffer"
                                 THEN "in" ELSE "out",
                        codec |-> last.args.self, index |-> last.calls[1].result,
                        uses |-> 0]
    /\ last.op \in GiveBackOps =>
          /\ Len(last.calls) = 1
          /\ last.args.buffer.kind =
                (IF last.op = "MediaCodec::queue_input_buffer" THEN "in" ELSE "out")
          /\ last.args.buffer.uses = 0
          /\ last.calls[1].index = last.args.buffer.index
          /\ tok[last.args.place] = NoTok
          /\ Cardinality({c \in CodecIds : codec[c].st # "none"}) = 1 =>
                last.calls[1].codec = last.args.buffer.codec

\* An input buffer was queued and the native call failed.
C4_Witness ==
    /\ last.op = "MediaCodec::queue_input_buffer"
    /\ last.ret.tag = "Err"
    /\ last.calls[1].index = as_isize(1)

\* The native function each status-returning operation is a wrapper of.
NativeOf(op) ==
    CASE op = "MediaCodec::configure" -> "AMediaCodec_configure"
      [] op = "MediaCodec::start" -> "AMediaCodec_start"
      [] op = "MediaCodec::stop" -> "AMediaCodec_stop"
      [] op = "MediaCodec::flush" -> "AMediaCodec_flush"
      [] op = "MediaCodec::queue_input_buffer" -> "AMediaCodec_queueInputBuffer"
      [] op = "MediaCodec::release_output_buffer" -> "AMediaCodec_releaseOutputBuffer"
      [] op = "MediaCodec::release_output_buffer_at_time" ->
            "AMediaCodec_releaseOutputBufferAtTime"
      [] op = "MediaCodec::set_output_surface" -> "AMediaCodec_setOutputSurface"
      [] OTHER -> "none"

\* C5: configure, start, stop, flush, queue_input_buffer, release_output_buffer,
\* release_output_buffer_at_time and set_output_surface each make exactly one
\* native call, return Ok exactly when its status is the success status, and
\* otherwise return Err with that status.
C5_NoLocalRecovery ==
    NativeOf(last.op) # "none" =>
        /\ Len(last.calls) = 1
        /\ last.calls[1].fn = NativeOf(last.op)
        /\ last.ret.tag \in {"Ok", "Err"}
        /\ last.ret.tag = "Ok" <=> last.calls[1].result = AMEDIA_OK
        /\ last.ret.tag = "Err" => last.ret.status = last.calls[1].result

\* The native start failed and start returned its status.
C5_Witness ==
    /\ last.op = "MediaCodec::start"
    /\ last.ret = [tag |-> "Err", status |-> AMEDIA_ERROR_UNSUPPORTED]

\* C6: the native call of queue_input_buffer, release_output_buffer and
\* release_output_buffer_at_time is made on the codec the buffer token was
\* dequeued from.
C6_SameSession ==
    last.op \in GiveBackOps => last.calls[1].codec = last.args.buffer.codec

\* The timeout is at most i64::MAX = 9223372036854775807 whole microseconds.
FitsI64(d) ==
    /\ d.secs[1] = 0
    /\ \/ d.secs[2] < 9
       \/ d.secs[2] = 9 /\ d.secs[3] < 223372
       \/ d.secs[2] = 9 /\ d.secs[3] = 223372 /\ d.secs[4] < 36854
       \/ d.secs[2] = 9 /\ d.secs[3] = 223372 /\ d.secs[4] = 36854 /\ d.nanos < 775808000

\* C7: a dequeue hands the native call the whole microseconds of the timeout
\* when they fit an i64, and panics with "Supplied timeout is too large"
\* without a native call when they do not.
C7_MicrosecondTimeout ==
    last.op \in DequeueOps =>
        LET d == last.args.timeout
        IN /\ FitsI64(d) =>
                /\ Len(last.calls) = 1
                /\ SubSeq(last.calls[1].timeoutUs, 1, 4) = d.secs
                /\ Len(last.calls[1].timeoutUs) = 5
                /\ last.calls[1].timeoutUs[5] * 1000 <= d.nanos
                /\ d.nanos < last.calls[1].timeoutUs[5] * 1000 + 1000
           /\ ~FitsI64(d) =>
                /\ last.calls = <<>>
                /\ last.ret = [tag |-> "Panic", msg |-> "Supplied timeout is too large"]

\* A dequeue with a timeout of i64::MAX microseconds and 999 ns made the call.
C7_Witness ==
    /\ last.op = "MediaCodec::dequeue_output_buffer"
    /\ last.args.timeout.nanos = 775807999
    /\ last.calls # <<>>
    /\ last.calls[1].timeoutUs = <<0, 9, 223372, 36854, 775807>>

\* C8: configure passes the encode flag exactly for Encoder and 0 for Decoder,
\* a null surface exactly for None and the window's pointer otherwise, and a
\* null crypto.
C8_ConfigureArguments ==
    last.op = "MediaCodec::configure" =>
        LET a == last.args
            k == last.calls[1]
        IN /\ k.flags = AMEDIACODEC_CONFIGURE_FLAG_ENCODE <=> a.direction = "Encoder"
           /\ a.direction = "Decoder" => k.flags = 0
           /\ k.surface = NULL <=> ~a.surface.some
           /\ a.surface.some => k.surface = a.surface.window
           /\ k.crypto = NULL

\* An encoder was configured with a surface.
C8_Witness ==
    /\ last.op = "MediaCodec::configure"
    /\ last.args.direction = "Encoder"
    /\ last.args.surface.some
    /\ last.calls[1].flags = AMEDIACODEC_CONFIGURE_FLAG_ENCODE

\* C9: every InputBuffer / OutputBuffer a caller holds refers to a codec whose
\* native delete was not called, so buffer_mut and buffer never hand a deleted
\* codec to the native get-buffer calls.
C9_NoDanglingBuffer ==
    /\ \A t \in TokIds : tok[t] # NoTok => codec[tok[t].codec].st = "live"
    /\ last.op \in {"InputBuffer::buffer_mut", "OutputBuffer::buffer"} =>
          codec[last.calls[1].codec].st = "live"

\* A token is read while another codec session was already deleted.
C9_Witness ==
    /\ last.op = "InputBuffer::buffer_mut"
    /\ \E c \in CodecIds : codec[c].st = "deleted"

\* C10: a drop makes the single delete call and panics when it reports a
\* status other than success; on success it returns, with no further call.
C10_DropPanics ==
    last.op \in {"MediaCodec::drop", "MediaFormat::drop"} =>
        /\ Len(last.calls) = 1
        /\ last.calls[1].fn =
              (IF last.op = "MediaCodec::drop" THEN "AMediaCodec_delete"
               ELSE "AMediaFormat_delete")
        /\ last.calls[1].result # AMEDIA_OK => last.ret.tag = "Panic"
        /\ last.calls[1].result = AMEDIA_OK => last.ret.tag = "Return"

\* The drop of a format panicked after the delete.
C10_Witness ==
    /\ last.op = "MediaFormat::drop"
    /\ last.ret.tag = "Panic"
    /\ format[last.args.self].dels = 1

=============================================================================
